---- MODULE Spec2Model ----
(***************************************************************************)
(* Model of the actuators of deoxy: the H-bridge Pump (src/src/pump.rs)    *)
(* and the servo Motor (src/src/motor.rs).                                 *)
(*                                                                         *)
(* Pump::set_direction is modelled one pin write at a time, so that the    *)
(* states between its writes are states of the model.  A Motor call makes  *)
(* a single pin write and is modelled as one step.  Durations are integers *)
(* (nanoseconds, the resolution of std::time::Duration).                   *)
(***************************************************************************)
EXTENDS Integers, Sequences, FiniteSets, TLC

\* ------------------------------------------------------------------------
\* Bounds of the model
\* ------------------------------------------------------------------------

\* Durations of the model are the multiples 0, DurUnit, ..., MaxDurUnits * DurUnit.
DurUnit == 90

MaxDurUnits == 3

\* set_angle is called with every angle of 0..MaxAngle (one more than the
\* largest angle the code accepts).
MaxAngle == 181

\* At most MaxMailbox messages wait in the Pump's mailbox.
MaxMailbox == 2

\* ------------------------------------------------------------------------
\* Program constants
\* ------------------------------------------------------------------------

\* `let range = 180;` and `assert!(angle <= 180)`.
AngleRange == 180

\* `thread::sleep(std::time::Duration::from_millis(20))`.
InterlockMs == 20

\* `for i in 0..4`: the four pins of the H-bridge.
NumPins == 4

Durations == {k * DurUnit : k \in 0..MaxDurUnits}

PinIndex == 0..(NumPins - 1)

VARIABLES
    \* Pump
    pins,          \* pins[i]: the level of H-bridge pin i (TRUE = high)
    direction,     \* Pump.direction: "None", "Forward" or "Backward"
    pumpPc,        \* where the running set_direction call stands ("idle": no call)
    frame,         \* the locals of the running (or last) set_direction call
    pumpRet,       \* what the last completed Pump call returned ("none" before any)
    mailbox,       \* the messages sent to the Pump actor and not yet handled
    \* Motor
    period,        \* Motor.period
    signal_range,  \* Motor.signal_range, [start, end]
    pulse_width,   \* Motor.pulse_width
    motorCall      \* the last Motor call: its operation, its argument, what it
                   \* returned (ret), the result of its pin write (pinResult)
                   \* and the set_pwm calls it made (writes)

pumpVars == <<pins, direction, pumpPc, frame, pumpRet, mailbox>>

motorVars == <<period, signal_range, pulse_width, motorCall>>

vars == <<pins, direction, pumpPc, frame, pumpRet, mailbox,
          period, signal_range, pulse_width, motorCall>>

\* ------------------------------------------------------------------------
\* Pin (src/src/pin.rs is not part of the sources: modelled from the
\* specification, section 4.1)
\* ------------------------------------------------------------------------

\* Pin::set_high / Pin::set_low: the level after writing `level` to a pin
\* whose level is `old`; a failed write leaves the level as it was.
PinSet(old, level, ok) == IF ok THEN level ELSE old

\* Pin::set_pwm(period, width): fails on a hardware failure and when the
\* pulse width exceeds the period.
PwmResult(p, width, ok) == IF ok /\ width <= p THEN "Ok" ELSE "Err"

\* ------------------------------------------------------------------------
\* Pump
\* ------------------------------------------------------------------------

Directions == {"Forward", "Backward"}

\* `Direction::Forward => (0, 3), Direction::Backward => (1, 2)`
DirectionPins(d) == IF d = "Forward" THEN <<0, 3>> ELSE <<1, 2>>

IsStopped_Always == TRUE

\* Pump::is_stopped
IsStopped == direction = "None"

\* The locals of a set_direction call that has just been entered:
\*   req        the requested direction
\*   nested     TRUE while the stop() of line 76 runs inside set_direction(Some(d))
\*   wasStopped whether the pump was stopped on entry (what line 75 tests)
\*   i          the index of the `for i in 0..4` loop (= the set_low writes made)
\*   slept      the milliseconds slept by this call
\*   writeErr   TRUE when a pin write of this call failed (the code drops the result)
NewFrame(d, stopped) ==
    [req |-> d, nested |-> (d # "None" /\ ~stopped), wasStopped |-> stopped,
     i |-> 0, slept |-> 0, writeErr |-> FALSE]

\* Entry of set_direction(direction): lines 73-76 and 87.
SetDirection(d) ==
    /\ pumpPc = "idle"
    /\ frame' = NewFrame(d, IsStopped)
    /\ pumpPc' = IF d # "None" /\ IsStopped THEN "set_top" ELSE "set_low"
    /\ pumpRet' = "none"
    /\ UNCHANGED <<pins, direction>>

\* Pump::perfuse
Perfuse == SetDirection("Forward") /\ UNCHANGED <<mailbox, motorVars>>

\* Pump::drain
Drain == SetDirection("Backward") /\ UNCHANGED <<mailbox, motorVars>>

\* Pump::stop, called by a user of the Pump
Stop == SetDirection("None") /\ UNCHANGED <<mailbox, motorVars>>

SetLow_OffByOne(ok) ==
    /\ pumpPc = "set_low"
    /\ frame.i < NumPins - 1
    /\ pins' = [pins EXCEPT ![frame.i] = PinSet(pins[frame.i], FALSE, ok)]
    /\ frame' = [frame EXCEPT !.i = frame.i + 1,
                              !.writeErr = frame.writeErr \/ ~ok]
    /\ pumpPc' = IF frame.i + 1 = NumPins - 1 THEN "assign" ELSE "set_low"
    /\ UNCHANGED <<direction, pumpRet>>
    /\ UNCHANGED <<mailbox, motorVars>>

\* One iteration of `for i in 0..4 { self.pins[i].set_low(); }`
SetLow(ok) ==
    /\ pumpPc = "set_low"
    /\ frame.i < NumPins
    /\ pins' = [pins EXCEPT ![frame.i] = PinSet(pins[frame.i], FALSE, ok)]
    /\ frame' = [frame EXCEPT !.i = frame.i + 1,
                              !.writeErr = frame.writeErr \/ ~ok]
    /\ pumpPc' = IF frame.i + 1 = NumPins THEN "assign" ELSE "set_low"
    /\ UNCHANGED <<direction, pumpRet>>
    /\ UNCHANGED <<mailbox, motorVars>>

Sleep_NoWait ==
    /\ pumpPc = "sleep"
    /\ pumpPc' = "set_top"
    /\ UNCHANGED <<pins, direction, pumpRet, frame>>
    /\ UNCHANGED <<mailbox, motorVars>>

\* `thread::sleep(std::time::Duration::from_millis(20));`
Sleep ==
    /\ pumpPc = "sleep"
    /\ frame' = [frame EXCEPT !.slept = frame.slept + InterlockMs]
    /\ pumpPc' = "set_top"
    /\ UNCHANGED <<pins, direction, pumpRet>>
    /\ UNCHANGED <<mailbox, motorVars>>

\* `self.pins[top].set_high();`
SetTop(ok) ==
    /\ pumpPc = "set_top"
    /\ LET top == DirectionPins(frame.req)[1]
       IN  pins' = [pins EXCEPT ![top] = PinSet(pins[top], TRUE, ok)]
    /\ frame' = [frame EXCEPT !.writeErr = frame.writeErr \/ ~ok]
    /\ pumpPc' = "set_bottom"
    /\ UNCHANGED <<direction, pumpRet>>
    /\ UNCHANGED <<mailbox, motorVars>>

\* `self.pins[bottom].set_high();`
SetBottom(ok) ==
    /\ pumpPc = "set_bottom"
    /\ LET bottom == DirectionPins(frame.req)[2]
       IN  pins' = [pins EXCEPT ![bottom] = PinSet(pins[bottom], TRUE, ok)]
    /\ frame' = [frame EXCEPT !.writeErr = frame.writeErr \/ ~ok]
    /\ pumpPc' = "assign"
    /\ UNCHANGED <<direction, pumpRet>>
    /\ UNCHANGED <<mailbox, motorVars>>

\* `self.direction = direction;` and the return of set_direction.  The nested
\* stop() of line 76 assigns None and returns into line 78; the outer call
\* assigns the requested direction and returns () to its caller.
Assign ==
    /\ pumpPc = "assign"
    /\ IF frame.nested
       THEN /\ direction' = "None"
            /\ frame' = [frame EXCEPT !.nested = FALSE]
            /\ pumpPc' = "sleep"
            /\ UNCHANGED pumpRet
       ELSE /\ direction' = frame.req
            /\ pumpPc' = "idle"
            /\ pumpRet' = "unit"
            /\ UNCHANGED frame
    /\ UNCHANGED pins
    /\ UNCHANGED <<mailbox, motorVars>>

PumpMessages == {"Perfuse", "Drain", "Stop"}

\* `Message::Perfuse => self.perfuse()`, `Message::Drain => self.drain()`,
\* `Message::Stop => self.stop()`: the direction the message's method requests.
MessageDirection(message) ==
    IF message = "Perfuse" THEN "Forward"
    ELSE IF message = "Drain" THEN "Backward" ELSE "None"

\* A sender posts a message to the Pump actor: it joins the mailbox.
Send(message) ==
    /\ Len(mailbox) < MaxMailbox
    /\ mailbox' = Append(mailbox, message)
    /\ UNCHANGED <<pins, direction, pumpPc, frame, pumpRet>>
    /\ UNCHANGED motorVars

HandlePump_Reentrant ==
    /\ mailbox # <<>>
    /\ frame' = NewFrame(MessageDirection(Head(mailbox)), IsStopped)
    /\ pumpPc' = IF MessageDirection(Head(mailbox)) # "None" /\ IsStopped
                 THEN "set_top" ELSE "set_low"
    /\ pumpRet' = "none"
    /\ mailbox' = Tail(mailbox)
    /\ UNCHANGED <<pins, direction>>
    /\ UNCHANGED motorVars

\* Handle<Message> for Pump: handle(&mut self, message) is entered with the
\* oldest message once no earlier call on the Pump is running, and calls the
\* message's method; its Result is ().
HandlePump ==
    /\ mailbox # <<>>
    /\ SetDirection(MessageDirection(Head(mailbox)))
    /\ mailbox' = Tail(mailbox)
    /\ UNCHANGED motorVars

\* ------------------------------------------------------------------------
\* Motor
\* ------------------------------------------------------------------------

MotorMessages == {"Open", "Close", "Shut", "Stop"}

AngleWidth_NoDivision(start, end, angle) == start + (end - start) * angle

AngleWidth_Reversed(start, end, angle) ==
    start + ((end - start) \div AngleRange) * (AngleRange - angle)

\* The pulse width set_angle computes (lines 79-91): the step per degree is
\* taken first (an integer division of the Duration), then multiplied.
AngleWidth(start, end, angle) ==
    LET delta  == end - start
        step   == delta \div AngleRange
        offset == step * angle
    IN  start + offset

SetPulseWidth_NoWrite(width, ok) ==
    [pulse_width |-> width, writes |-> <<>>, result |-> "Ok"]

\* The outcome of Motor::set_pulse_width(width): the field is assigned first
\* (line 66), then set_pwm(period, width) is called (line 67) and its result
\* returned.
SetPulseWidth(width, ok) ==
    LET res == PwmResult(period, width, ok)
    IN  [pulse_width |-> width,
         writes |-> <<[period |-> period, width |-> width]>>,
         result |-> res]

\* The outcome of a call that panics before its pin write.
Panicked == [pulse_width |-> pulse_width, writes |-> <<>>, result |-> "Panic"]

SetAngle_NoAssert(angle, ok) ==
    IF signal_range.end < signal_range.start
    THEN Panicked
    ELSE SetPulseWidth(AngleWidth(signal_range.start, signal_range.end, angle), ok)

\* The outcome of Motor::set_angle(angle): panics on angle > 180 (line 75)
\* and on `end - start` when end < start (Duration subtraction, line 79).
SetAngle(angle, ok) ==
    IF angle > AngleRange \/ signal_range.end < signal_range.start
    THEN Panicked
    ELSE SetPulseWidth(AngleWidth(signal_range.start, signal_range.end, angle), ok)

\* A Motor call with outcome `out` completes: the Motor takes the new
\* fields, the caller the result.  Once a call has panicked the Motor is gone.
MotorReturns(op, angle, out, ret) ==
    /\ motorCall.ret # "Panic"
    /\ pulse_width' = out.pulse_width
    /\ motorCall' = [op |-> op, angle |-> angle, ret |-> ret,
                     pinResult |-> out.result, writes |-> out.writes]
    /\ UNCHANGED <<period, signal_range>>
    /\ UNCHANGED pumpVars

\* Motor::set_angle, called by a user of the Motor
SetAngleCall(angle, ok) ==
    LET out == SetAngle(angle, ok)
    IN  MotorReturns("set_angle", angle, out, out.result)

\* Motor::open
Open(ok) ==
    LET out == SetAngle(0, ok)
    IN  MotorReturns("open", 0, out, out.result)

\* Motor::close
Close(ok) ==
    LET out == SetAngle(90, ok)
    IN  MotorReturns("close", 90, out, out.result)

\* Motor::shut
Shut(ok) ==
    LET out == SetAngle(180, ok)
    IN  MotorReturns("shut", 180, out, out.result)

\* The angle a message asks for.
MessageAngle(message) ==
    IF message = "Open" THEN 0 ELSE IF message = "Close" THEN 90 ELSE 180

HandleMotor_StopAtStart(message, ok) ==
    LET out == IF message = "Stop" THEN SetPulseWidth(signal_range.start, ok)
               ELSE SetAngle(MessageAngle(message), ok)
        ret == IF out.result = "Ok" THEN "Unit" ELSE "Panic"
    IN  MotorReturns(message, IF message = "Stop" THEN 0 ELSE MessageAngle(message),
                     out, ret)

\* Handle<Message> for Motor: the call's result is unwrapped, so an Err
\* panics, and the handler returns ().
HandleMotor(message, ok) ==
    LET out == IF message = "Stop" THEN SetPulseWidth(0, ok)
               ELSE SetAngle(MessageAngle(message), ok)
        ret == IF out.result = "Ok" THEN "Unit" ELSE "Panic"
    IN  MotorReturns(message, IF message = "Stop" THEN 0 ELSE MessageAngle(message),
                     out, ret)

\* ------------------------------------------------------------------------
\* Specifications
\* ------------------------------------------------------------------------

\* Config::from_str on a motor entry with this range: toml::from_str only
\* deserializes the two numbers of `range`; nothing compares them.
ConfigFromStr(range) == "Ok"

\* Motor::try_new(period, range, pin) on a pin that can be opened: the range
\* is converted and stored as given.
TryNew(p, range) == "Ok"

\* Pump::new: stopped; the pins start low.  Motor::try_new (lines 117-130):
\* any period and any range are accepted, pulse_width is the range's start.
Init ==
    /\ pins = [p \in PinIndex |-> FALSE]
    /\ direction = "None"
    /\ pumpPc = "idle"
    /\ frame = NewFrame("None", TRUE)
    /\ pumpRet = "none"
    /\ mailbox = <<>>
    /\ period \in Durations
    /\ signal_range \in {r \in [start : Durations, end : Durations] :
                            ConfigFromStr(r) = "Ok" /\ TryNew(period, r) = "Ok"}
    /\ pulse_width = signal_range.start
    /\ motorCall = [op |-> "try_new", angle |-> 0, ret |-> "Ok",
                    pinResult |-> "Ok", writes |-> <<>>]

\* The Pump, its pin writes succeeding or failing.
PumpNext ==
    \/ Perfuse
    \/ Drain
    \/ Stop
    \/ \E ok \in BOOLEAN : SetLow(ok)
    \/ Sleep
    \/ \E ok \in BOOLEAN : SetTop(ok)
    \/ \E ok \in BOOLEAN : SetBottom(ok)
    \/ Assign

\* The Pump with every pin write taking effect.
PumpNextOk ==
    \/ Perfuse
    \/ Drain
    \/ Stop
    \/ SetLow(TRUE)
    \/ Sleep
    \/ SetTop(TRUE)
    \/ SetBottom(TRUE)
    \/ Assign

\* The Motor, called directly and through its messages.
MotorNext ==
    \/ \E angle \in 0..MaxAngle, ok \in BOOLEAN : SetAngleCall(angle, ok)
    \/ \E ok \in BOOLEAN : Open(ok)
    \/ \E ok \in BOOLEAN : Close(ok)
    \/ \E ok \in BOOLEAN : Shut(ok)
    \/ \E message \in MotorMessages, ok \in BOOLEAN : HandleMotor(message, ok)

SpecPump == Init /\ [][PumpNext]_vars

SpecPumpOk == Init /\ [][PumpNextOk]_vars

SpecMotor == Init /\ [][MotorNext]_vars

\* The Pump as an actor: senders post messages at any time, the handler
\* takes them one by one; pin writes succeed or fail.
PumpActorNext ==
    \/ \E message \in PumpMessages : Send(message)
    \/ HandlePump
    \/ \E ok \in BOOLEAN : SetLow(ok)
    \/ Sleep
    \/ \E ok \in BOOLEAN : SetTop(ok)
    \/ \E ok \in BOOLEAN : SetBottom(ok)
    \/ Assign

\* The Pump actor with every pin write taking effect.
PumpActorNextOk ==
    \/ \E message \in PumpMessages : Send(message)
    \/ HandlePump
    \/ SetLow(TRUE)
    \/ Sleep
    \/ SetTop(TRUE)
    \/ SetBottom(TRUE)
    \/ Assign

SpecPumpActor == Init /\ [][PumpActorNext]_vars

SpecPumpActorOk == Init /\ [][PumpActorNextOk]_vars

\* The Motor as an actor: it is reached through its messages only.
MotorActorNext ==
    \E message \in MotorMessages, ok \in BOOLEAN : HandleMotor(message, ok)

SpecMotorActor == Init /\ [][MotorActorNext]_vars

\* ------------------------------------------------------------------------
\* Properties
\* ------------------------------------------------------------------------

AllLow == \A p \in PinIndex : ~pins[p]

\* Exactly the two pins of d are high.
ExactlyHigh(d) ==
    \A p \in PinIndex : pins[p] <=> (p = DirectionPins(d)[1] \/ p = DirectionPins(d)[2])

\* C1: with every pin write taking effect, no state - the states between the
\* pin writes of set_direction included - has a Forward pin (0 or 3) and a
\* Backward pin (1 or 2) high together.
C1_NoShootThrough == ~((pins[0] \/ pins[3]) /\ (pins[1] \/ pins[2]))

\* A reversal has completed: the pump ran, was stopped inside drain(), and
\* now runs backward.
C1_Witness ==
    /\ pumpPc = "idle"
    /\ direction = "Backward"
    /\ ~frame.wasStopped
    /\ ExactlyHigh("Backward")

\* C2: in every state, the states between the pin writes included, the
\* recorded direction agrees with the pin levels: None means all four pins
\* low, Some(d) means exactly the pins of d high; or the pump is in its
\* interlock window with all four pins low.
C2_DirectionAgreesWithPins ==
    \/ pumpPc = "sleep" /\ AllLow
    \/ direction = "None" /\ AllLow
    \/ direction \in Directions /\ ExactlyHigh(direction)

\* C3: when set_direction(Some(d)) is about to raise the pins of d, then, if
\* the pump was not stopped on entry, all four set_low writes have been made
\* (and, none of them having failed, all four pins are low) and the 20 ms
\* wait has elapsed; if it was stopped on entry, no set_low write and no wait
\* has been made.  Until then the call has raised no pin: the pins it has
\* written so far are low.
C3_Interlock ==
    /\ pumpPc = "set_top" =>
          IF frame.wasStopped
          THEN frame.i = 0 /\ frame.slept = 0
          ELSE /\ frame.i = NumPins
               /\ frame.slept = InterlockMs
               /\ (~frame.writeErr => AllLow)
    /\ (frame.req \in Directions /\ pumpPc \in {"set_low", "sleep"}) =>
          /\ frame.slept = 0
          /\ (~frame.writeErr => \A p \in PinIndex : p < frame.i => ~pins[p])

\* The first pin of d has been raised after the stop and the wait.
C3_Witness ==
    /\ pumpPc = "set_bottom"
    /\ ~frame.wasStopped
    /\ frame.slept = InterlockMs
    /\ ~frame.writeErr
    /\ pins[DirectionPins(frame.req)[1]]

\* C4: the recorded direction changes only when no pin write of the
\* transition has failed.
C4_DirectionOnlyAfterSuccess == [][direction' # direction => ~frame.writeErr]_vars

\* The methods of Motor that return a Result.
MotorMethods == {"set_angle", "open", "close", "shut"}

\* C5: a Pump or Motor method one of whose pin writes failed returns an
\* error to its caller, and has made no second write.
C5_WriteFailureReturned ==
    /\ (pumpPc = "idle" /\ frame.writeErr) => pumpRet = "Err"
    /\ (motorCall.op \in MotorMethods /\ motorCall.pinResult = "Err") =>
          motorCall.ret = "Err" /\ Len(motorCall.writes) = 1

\* C6: after a successful set_angle(angle) on a range with start <= end,
\* pulse_width = start + ((end - start) * angle) / 180.
C6_AngleFormula ==
    (/\ motorCall.op = "set_angle"
     /\ motorCall.ret = "Ok"
     /\ signal_range.start <= signal_range.end) =>
        pulse_width = signal_range.start
            + ((signal_range.end - signal_range.start) * motorCall.angle) \div AngleRange

\* C7: on a range with start <= end, a successful open() leaves pulse_width
\* at start, close() at (start + end) / 2, shut() at end.
C7_Positions ==
    (motorCall.ret = "Ok" /\ signal_range.start <= signal_range.end) =>
        /\ motorCall.op = "open" => pulse_width = signal_range.start
        /\ motorCall.op = "close" =>
              pulse_width = (signal_range.start + signal_range.end) \div 2
        /\ motorCall.op = "shut" => pulse_width = signal_range.end

\* The call `c` set an angle and its pin write succeeded.
AngleSet(c) == c.op \notin {"try_new", "Stop"} /\ c.pinResult = "Ok"

\* C8: when an angle is set successfully after another, the pulse widths
\* are ordered as the angles are: a <= b gives width(a) <= width(b).
C8_Monotonic ==
    [][(/\ AngleSet(motorCall)
        /\ AngleSet(motorCall')
        /\ signal_range.start <= signal_range.end) =>
           /\ motorCall.angle <= motorCall'.angle => pulse_width <= pulse_width'
           /\ motorCall'.angle <= motorCall.angle => pulse_width' <= pulse_width]_vars

\* The widest angle has been set and has moved the pulse width off the start
\* of the range.
C8_Witness ==
    /\ AngleSet(motorCall)
    /\ motorCall.angle = AngleRange
    /\ pulse_width > signal_range.start

\* C9, as stated, for a Motor whose range is in order: pulse_width lies
\* within signal_range in every state.
C9_WithinRange ==
    signal_range.start <= signal_range.end =>
        signal_range.start <= pulse_width /\ pulse_width <= signal_range.end

\* C9, amended: pulse_width is zero (a Stop message sets it to zero) or lies
\* within signal_range; in a Motor built on an inverted range (start > end,
\* which try_new accepts) it is zero or the start of the range.
C9_WithinRangeOrZero ==
    \/ pulse_width = 0
    \/ IF signal_range.start <= signal_range.end
       THEN signal_range.start <= pulse_width /\ pulse_width <= signal_range.end
       ELSE pulse_width = signal_range.start

\* A Stop message has taken the pulse width below a range that starts above zero.
C9_Witness ==
    /\ motorCall.op = "Stop"
    /\ pulse_width = 0
    /\ 0 < signal_range.start
    /\ signal_range.start <= signal_range.end

\* C10: a Motor call whose pin write fails with a PinError leaves
\* pulse_width as it was before the call.
C10_FailureKeepsPulseWidth ==
    [][motorCall'.pinResult = "Err" => pulse_width' = pulse_width]_vars

\* C11: set_angle(angle) with angle > 180 panics, and does so before any
\* effect: it makes no pin write and leaves pulse_width as it was.
C11_AngleAssert ==
    [][(motorCall'.op = "set_angle" /\ motorCall'.angle > AngleRange) =>
          /\ motorCall'.ret = "Panic"
          /\ motorCall'.writes = <<>>
          /\ pulse_width' = pulse_width]_vars

\* set_angle(181) has panicked on a Motor whose range is in order.
C11_Witness ==
    /\ motorCall.op = "set_angle"
    /\ motorCall.angle > AngleRange
    /\ motorCall.ret = "Panic"
    /\ signal_range.start < signal_range.end

\* C12: a Motor just constructed is in the closed position: a successful
\* close() right after try_new leaves pulse_width where try_new put it.
C12_InitiallyClosed ==
    [][(/\ motorCall.op = "try_new"
        /\ motorCall'.op \in {"close", "Close"}
        /\ motorCall'.pinResult = "Ok") => pulse_width' = pulse_width]_vars

\* C13: no Motor exists whose range violates start < end, and no
\* set_angle on an angle of 0..180 fails on the range (panics).
C13_InvertedRangeRejected ==
    /\ signal_range.start < signal_range.end
    /\ motorCall.pinResult = "Panic" => motorCall.angle > AngleRange

\* C14: every successful Motor call (an angle set, or the Stop message)
\* makes exactly one pin write, set_pwm(period, width), sets pulse_width to
\* that width and leaves period and signal_range as they were.
C14_OneWritePerCall ==
    [][(motorCall'.op # "try_new" /\ motorCall'.pinResult = "Ok") =>
          /\ motorCall'.writes = <<[period |-> period, width |-> pulse_width']>>
          /\ period' = period
          /\ signal_range' = signal_range]_vars

\* A successful call has moved the pulse width to a new value.
C14_Witness ==
    /\ motorCall.op = "shut"
    /\ motorCall.ret = "Ok"
    /\ pulse_width > signal_range.start
    /\ Len(motorCall.writes) = 1

\* C18: a handled Stop message has set pulse_width to zero and has called
\* set_pwm(period, 0) exactly once (returning () when the write succeeded);
\* afterwards pulse_width changes only when an Open, Close or Shut message
\* is handled.
C18_StopRemovesSignal ==
    /\ [](motorCall.op = "Stop" =>
            /\ pulse_width = 0
            /\ motorCall.writes = <<[period |-> period, width |-> 0]>>
            /\ (motorCall.pinResult = "Ok" => motorCall.ret = "Unit"))
    /\ [][(motorCall.op = "Stop" /\ pulse_width' # pulse_width) =>
             motorCall'.op \in {"Open", "Close", "Shut"}]_vars

\* Stop has been handled on a Motor that stood at a position above zero.
C18_Witness ==
    /\ motorCall.op = "Stop"
    /\ motorCall.ret = "Unit"
    /\ pulse_width = 0
    /\ 0 < signal_range.start

\* C15: with every pin write taking effect, the state after a completed
\* call is that of the call alone: Forward with exactly pins 0 and 3 high
\* after perfuse(), Backward with exactly pins 1 and 2 high after drain(),
\* None with all four pins low after stop().
C15_StateOfLastCall ==
    (pumpPc = "idle" /\ pumpRet = "unit") =>
        /\ direction = frame.req
        /\ frame.req = "Forward" => \A p \in PinIndex : pins[p] <=> p \in {0, 3}
        /\ frame.req = "Backward" => \A p \in PinIndex : pins[p] <=> p \in {1, 2}
        /\ frame.req = "None" => \A p \in PinIndex : ~pins[p]

\* A Stop message has been handled on a pump that was already stopped.
C15_Witness ==
    /\ pumpPc = "idle"
    /\ pumpRet = "unit"
    /\ frame.req = "None"
    /\ frame.wasStopped
    /\ direction = "None"

C17_FailureAcknowledged ==
    /\ (pumpPc = "idle" /\ pumpRet # "none" /\ frame.writeErr) => pumpRet = "Err"
    /\ (motorCall.op \in MotorMessages /\ motorCall.pinResult = "Err") =>
          motorCall.ret = "Err"

====
